---- MODULE Spec2Model ----
(***************************************************************************)
(* The region-reference fix of the NightKidz Shop development scripts.     *)
(*                                                                         *)
(* The scripts that carry a copy of the fix:                               *)
(*   update-db.js, pull-remote-db.js, the all-in-one setup tool and        *)
(*   setup-local-db.js      automatic: fixRegionReferences                 *)
(*   fix-regions.js         interactive: main                              *)
(*   the local development setup script   updateRegionReferences, main     *)
(* Also modelled: the steps of main of pull-remote-db.js (SpecPull).       *)
(* The database is the only shared state.  One step of the model is one    *)
(* query phase of a script or the processing of one table of its list.     *)
(***************************************************************************)
EXTENDS Integers, Sequences, FiniteSets, TLC

(* ------------------------------ bounds -------------------------------- *)
\* rows in the whole database
MaxRows == 2
\* hours of clock time the storefront middleware is followed for
MaxHours == 26
\* UPDATE statements on healthy tables that the database may fail in a run
MaxFailures == 1

(* ------------------------------ values -------------------------------- *)
NULL == "NULL"
SEED == "reg_01JVK89Q8PEA1EMJS7FPBN12VF"
R1 == "reg_usd"
R2 == "reg_eur"

\* ids a row of the region table may carry, and their currency_code
RegionIds == {R1, R2, SEED}
currency_code(id) == IF id = R1 THEN "usd" ELSE IF id = R2 THEN "eur" ELSE "gbp"

\* values the region_id column of a referencing row holds before the fix
\* (R1 is a valid region, a soft-deleted one or no region at all)
RefVals == {NULL, SEED, R1}

\* the tables the modelled database may have; any other table is absent
DbTables == {"cart", "customer", "order"}

\* an unquoted table name that is a reserved word of PostgreSQL makes the
\* statement a syntax error
ReservedWords == {"order"}

\* update-db stands for the three scripts whose fixRegionReferences rethrows
\* (update-db.js, pull-remote-db.js, the all-in-one setup tool)
Scripts == {"update-db", "setup-local-db", "fix-regions", "setup-local-dev"}
AutoScripts == {"update-db", "setup-local-db"}

AutoTables ==
  <<"cart", "customer", "payment_session", "shipping_option",
    "shipping_method", "discount", "payment_collection", "pricing">>

FixRegionsTables ==
  <<"cart", "customer", "discount_condition_region", "discount_region",
    "order", "payment_collection", "payment_session", "shipping_option">>

SetupDevTables ==
  <<"cart", "customer", "discount_condition_region", "discount_region",
    "order", "payment_collection", "payment_session", "shipping_option",
    "draft_order", "batch_job", "claim_order", "swap", "gift_card">>

tables(s) ==
  IF s \in AutoScripts THEN AutoTables
  ELSE IF s = "fix-regions" THEN FixRegionsTables
  ELSE SetupDevTables

\* what detectFrontendRegionIds may return: nothing when the cache directory
\* is absent, otherwise the ids found with the known id added last
DetectedInputs == {<<>>, <<SEED>>, <<R1, SEED>>}

\* what the user may type at the first prompt of fix-regions.js
OldIdInputs == {"", SEED, R1}

\* the values of process.env.NODE_ENV considered
NodeEnvs == {"development", "production"}

VARIABLES
  nodeEnv,     \* process.env.NODE_ENV
  pull,        \* the run of main of pull-remote-db.js (see PullIdle)
  mw,          \* the storefront middleware and its regionMapCache (see MwIdle)
  setup,       \* the run of main of setup-local-db.js (see SetupIdle)
  route,       \* a request to the add-to-cart route (see RouteIdle)
  script,      \* the script that runs
  region,      \* region table: id -> "absent" | "deleted" | "valid"
  schema,      \* table -> "missing" | "nocol" | "ok"
  db,          \* table -> sequence of rows [key, region_id]
  db0,         \* the database content when the script started
  pc,          \* position of the script
  conn,        \* "none" | "open" | "closed"
  ids,         \* the ids being replaced (problematicRegionIds, problemRegions)
  regionId,    \* the replacement id (regionId, newRegionId, replacementRegion.id)
  ii,          \* index into ids (setup-local-dev: one call per id)
  ti,          \* index into the table list
  report,      \* per table of the list: what this pass printed for it
  total,       \* updatedRecords / updatedTables of this pass
  attempted,   \* per table of the list: UPDATE statements sent in this run
  okLog,       \* <<old id, table>> of the UPDATEs that succeeded in this run
  failures,    \* UPDATEs on healthy tables failed by the database so far
  fatal,       \* "none" | "noregion" | "query"
  exit,        \* "running" | "0" | "1"
  success,     \* the final success message was printed
  errPrinted,  \* an error message was printed
  run,         \* 1, or 2 in the second of two successive runs
  prev         \* okLog of the first run, in the second

vars ==
  <<nodeEnv, pull, mw, setup, route, script, region, schema, db, db0, pc, conn, ids, regionId, ii, ti,
    report, total, attempted, okLog, failures, fatal, exit, success,
    errPrinted, run, prev>>

(* --------------------------- the database ----------------------------- *)
Row(k, v) == [key |-> k, region_id |-> v]

\* the rows of a table are listed in the order of Rank of their region_id:
\* tables that differ only in which primary key holds which row are the same
Rank(v) == IF v = NULL THEN 0 ELSE IF v = SEED THEN 1 ELSE 2

RowSeqs ==
  UNION {{s \in [1..n -> RefVals] : \A i \in 1..n - 1 : Rank(s[i]) <= Rank(s[i + 1])} :
           n \in 0..MaxRows}

RECURSIVE SumLen(_, _)
SumLen(f, S) ==
  IF S = {} THEN 0
  ELSE LET t == CHOOSE x \in S : TRUE IN Len(f[t]) + SumLen(f, S \ {t})

\* the schemas considered: every table healthy except possibly one
SchemaStates ==
  {s \in [DbTables -> {"missing", "nocol", "ok"}] :
     Cardinality({t \in DbTables : s[t] # "ok"}) <= 1}

\* the region tables considered
RegionStates ==
  {r \in [RegionIds -> {"absent", "deleted", "valid"}] :
     r[R2] # "deleted" /\ r[SEED] # "deleted"}

\* the query without its WHERE deleted_at IS NULL
AllRegionIds == {id \in RegionIds : region[id] # "absent"}

\* SELECT id FROM region WHERE deleted_at IS NULL
ValidRegionIds == {id \in RegionIds : region[id] = "valid"}

\* the UPDATE statement on t can be executed at all
Updatable(t) == t \in DbTables /\ schema[t] = "ok" /\ t \notin ReservedWords

\* information_schema.tables / information_schema.columns
TableExists(t) == t \in DbTables /\ schema[t] # "missing"
ColumnExists(t) == t \in DbTables /\ schema[t] = "ok"

\* the statement without its WHERE clause
UpdateNoWhere(rows, new, old) ==
  [i \in DOMAIN rows |-> [rows[i] EXCEPT !.region_id = new]]

\* the statement rewriting only the first row that matches
UpdateFirstOnly(rows, new, old) ==
  [i \in DOMAIN rows |->
     IF rows[i].region_id = old /\ old # NULL
        /\ \A j \in 1..i - 1 : rows[j].region_id # old
     THEN [rows[i] EXCEPT !.region_id = new]
     ELSE rows[i]]

\* UPDATE t SET region_id = new WHERE region_id = old
Update(rows, new, old) ==
  [i \in DOMAIN rows |->
     IF rows[i].region_id = old /\ old # NULL
     THEN [rows[i] EXCEPT !.region_id = new]
     ELSE rows[i]]

\* the number of rows of the table instead
RowCountAll(rows, old) == Len(rows)

\* its rowCount
RowCount(rows, old) ==
  Cardinality({i \in DOMAIN rows : rows[i].region_id = old /\ old # NULL})

\* the first k statements of the inner loop over problematicRegionIds
RECURSIVE UpdateAll(_, _, _, _)
UpdateAll(rows, new, olds, k) ==
  IF k = 0 THEN rows
  ELSE Update(UpdateAll(rows, new, olds, k - 1), new, olds[k])

\* the query without its NOT IN (valid ids)
CartNonNull ==
  {db["cart"][i].region_id : i \in DOMAIN db["cart"]} \ {NULL}

\* SELECT DISTINCT region_id FROM cart WHERE region_id NOT IN (valid ids)
\*   AND region_id IS NOT NULL
CartProblematic ==
  {db["cart"][i].region_id : i \in DOMAIN db["cart"]} \ (ValidRegionIds \cup {NULL})

\* the orders in which a query may return the members of S
Orders(S) ==
  {s \in [1..Cardinality(S) -> S] : \A i, j \in 1..Cardinality(S) : s[i] = s[j] => i = j}

Line(kind, n) == [kind |-> kind, n |-> n]

\* what the catch block inside the loop over the tables prints
CatchLine(s) ==
  IF s = "setup-local-dev" THEN Line("error", 0) ELSE Line("skipped", 0)

\* a try/catch around the loop instead: the first error ends the loop
Abort(i) == Len(tables(script)) + 1

\* a catch block that issues a ROLLBACK of a transaction opened at the start
RolledBack(d) == db0

\* the catch block inside the loop over the tables only prints: every
\* statement was committed on its own, the database the statements before
\* the error left is kept
Caught(d) == d

\* a loop that tries the table again after a caught error
Retry(i) == i

\* the try/catch is the body of the loop: after a caught error the loop goes
\* on with the table after table i
Continue(i) == i + 1
Blank(s) == [i \in 1..Len(tables(s)) |-> Line("none", 0)]
Zero(s) == [i \in 1..Len(tables(s)) |-> 0]

(* --------------------------- pull-remote-db.js ------------------------ *)
\* the steps of main that act on a database, in the order of the code
PullSteps == <<"dump", "drop", "create", "import", "migrate", "fix">>

\* main of pull-remote-db.js is not running
PullIdle ==
  [pc |-> "idle", envUrl |-> FALSE, started |-> <<>>, ok |-> {},
   localDb |-> "old", localDb0 |-> "old", dumpFile |-> "absent",
   answer |-> "none", exit |-> "running", success |-> FALSE,
   errPrinted |-> FALSE]

\* the middleware serves no request, main of setup-local-db.js is not
\* running, the add-to-cart route serves no request
MwIdle ==
  [pc |-> "idle", build |-> FALSE, def |-> "us", backend |-> <<>>,
   regionMap |-> <<>>, regionMapUpdated |-> 0, now |-> 0, req |-> 0,
   fetched |-> FALSE, outcome |-> "none", path |-> <<>>,
   response |-> [kind |-> "none"]]
SetupIdle ==
  [pc |-> "idle", script |-> "setup-local-db", flags |-> {}, envUrl |-> FALSE,
   started |-> <<>>, ok |-> {}, localDb |-> "old", localDb0 |-> "old",
   dumpFile |-> "absent", answer |-> "none", servers |-> FALSE]
RouteIdle ==
  [pc |-> "idle", live |-> {}, carts |-> <<>>, cookie |-> "none", req |-> 0,
   variant |-> "", added |-> "none",
   response |-> [success |-> FALSE, status |-> 0, cart |-> "none",
                 items_count |-> 0]]

(* ------------------------------- Init --------------------------------- *)
Start(scripts) ==
  /\ nodeEnv \in NodeEnvs
  /\ pull = PullIdle
  /\ mw = MwIdle
  /\ setup = SetupIdle
  /\ route = RouteIdle
  /\ script \in scripts
  /\ schema \in SchemaStates
  /\ db \in {[t \in DbTables |-> [i \in DOMAIN d[t] |-> Row(i, d[t][i])]] :
               d \in {e \in [DbTables -> RowSeqs] :
                        /\ \A t \in DbTables : schema[t] # "ok" => e[t] = <<>>
                        /\ SumLen(e, DbTables) <= MaxRows}}
  /\ region \in RegionStates
  /\ db0 = db
  /\ pc = "start"
  /\ conn = "none"
  /\ ids = <<>>
  /\ regionId = NULL
  /\ ii = 1
  /\ ti = 1
  /\ report = Blank(script)
  /\ total = 0
  /\ attempted = Zero(script)
  /\ okLog = {}
  /\ failures = 0
  /\ fatal = "none"
  /\ exit = "running"
  /\ success = FALSE
  /\ errPrinted = FALSE
  /\ run = 1
  /\ prev = {}

Init == Start(Scripts)

(* ------------------- the automatic fixRegionReferences ---------------- *)
\* an error that reaches the outer catch of fixRegionReferences: update-db.js
\* rethrows and main exits 1; setup-local-db.js only prints it, and main
\* goes on to its success message
AutoThrow ==
  /\ errPrinted' = TRUE
  /\ fatal' = "query"
  /\ pc' = "done"
  /\ exit' = IF script = "update-db" THEN "1" ELSE "0"
  /\ success' = (script = "setup-local-db")

\* new Pool, SELECT id FROM region WHERE deleted_at IS NULL LIMIT 1
RegionQuery ==
  /\ pc = "start"
  /\ script \in AutoScripts
  /\ \E queryOk \in BOOLEAN :
       IF ~queryOk
       THEN /\ AutoThrow
            /\ conn' = "open"
            /\ UNCHANGED regionId
       ELSE IF ValidRegionIds = {}
       THEN /\ errPrinted' = TRUE
            /\ conn' = "closed"
            /\ fatal' = "noregion"
            /\ pc' = "done"
            /\ exit' = "0"
            /\ success' = TRUE
            /\ UNCHANGED regionId
       ELSE /\ \E r \in ValidRegionIds : regionId' = r
            /\ conn' = "open"
            /\ pc' = "discover"
            /\ UNCHANGED <<errPrinted, fatal, exit, success>>
  /\ UNCHANGED <<nodeEnv, pull, mw, setup, route, script, region, schema, db, db0, ids, ii, ti, report, total,
                 attempted, okLog, failures, run, prev>>

\* the query on cart, and the list seeded with the hardcoded id
Discover ==
  /\ pc = "discover"
  /\ IF ~ColumnExists("cart")
     THEN /\ AutoThrow
          /\ UNCHANGED ids
     ELSE /\ \E o \in Orders(CartProblematic \ {SEED}) : ids' = <<SEED>> \o o
          /\ pc' = "tables"
          /\ UNCHANGED <<errPrinted, fatal, exit, success>>
  /\ UNCHANGED <<nodeEnv, pull, mw, setup, route, script, region, schema, db, db0, conn, regionId, ii, ti,
                 report, total, attempted, okLog, failures, run, prev>>

\* one iteration of for (const table of tables): the inner loop over the
\* ids, left at the first statement that errors
AutoTable ==
  /\ pc = "tables"
  /\ script \in AutoScripts
  /\ ti <= Len(tables(script))
  /\ LET t == tables(script)[ti]
         n == Len(ids)
     IN IF ~Updatable(t)
        THEN /\ attempted' = [attempted EXCEPT ![ti] = 1]
             /\ report' = [report EXCEPT ![ti] = CatchLine(script)]
             /\ ti' = Continue(ti)
             /\ db' = Caught(db)
             /\ UNCHANGED <<okLog, failures>>
        ELSE \E k \in 0..n :
               /\ k < n => failures < MaxFailures
               /\ LET d == [db EXCEPT ![t] = UpdateAll(db[t], regionId, ids, k)]
                  IN db' = IF k < n THEN Caught(d) ELSE d
               /\ okLog' = okLog \cup {<<ids[j], t>> : j \in 1..k}
               /\ attempted' = [attempted EXCEPT ![ti] = IF k < n THEN k + 1 ELSE n]
               /\ failures' = IF k < n THEN failures + 1 ELSE failures
               /\ report' = [report EXCEPT ![ti] =
                    IF k < n THEN CatchLine(script)
                    ELSE IF script = "update-db" THEN Line("fixed", 0)
                    ELSE Line("updating", 0)]
               /\ ti' = IF k < n THEN Continue(ti) ELSE ti + 1
  /\ UNCHANGED <<nodeEnv, pull, mw, setup, route, script, region, schema, db0, pc, conn, ids, regionId, ii,
                 total, fatal, exit, success, errPrinted, run, prev>>

\* pool.end and the success messages of fixRegionReferences and main
AutoFinish ==
  /\ pc = "tables"
  /\ script \in AutoScripts
  /\ ti > Len(tables(script))
  /\ conn' = "closed"
  /\ success' = TRUE
  /\ exit' = "0"
  /\ pc' = "done"
  /\ UNCHANGED <<nodeEnv, pull, mw, setup, route, script, region, schema, db, db0, ids, regionId, ii, ti,
                 report, total, attempted, okLog, failures, fatal, errPrinted,
                 run, prev>>

(* ----------------------------- fix-regions.js ------------------------- *)
\* client.connect
FRConnect ==
  /\ pc = "start"
  /\ script = "fix-regions"
  /\ \E connectOk \in BOOLEAN :
       IF connectOk
       THEN /\ conn' = "open"
            /\ pc' = "prompt"
            /\ UNCHANGED <<errPrinted, fatal, exit>>
       ELSE /\ errPrinted' = TRUE
            /\ fatal' = "query"
            /\ exit' = "0"
            /\ pc' = "done"
            /\ UNCHANGED conn
  /\ UNCHANGED <<nodeEnv, pull, mw, setup, route, script, region, schema, db, db0, ids, regionId, ii, ti,
                 report, total, attempted, okLog, failures, success, run, prev>>

\* the first prompt: the id to replace
FRPrompt ==
  /\ pc = "prompt"
  /\ \E productionRegionId \in OldIdInputs :
       IF productionRegionId = ""
       THEN /\ conn' = "closed"
            /\ exit' = "0"
            /\ pc' = "done"
            /\ UNCHANGED ids
       ELSE /\ ids' = <<productionRegionId>>
            /\ pc' = "select"
            /\ UNCHANGED <<conn, exit>>
  /\ UNCHANGED <<nodeEnv, pull, mw, setup, route, script, region, schema, db, db0, regionId, ii, ti, report,
                 total, attempted, okLog, failures, fatal, success, errPrinted,
                 run, prev>>

\* SELECT id, name FROM region WHERE deleted_at IS NULL, and the second
\* prompt: a number that is an index of the list, or anything else
FRSelect ==
  /\ pc = "select"
  /\ \E queryOk \in BOOLEAN :
       IF ~queryOk
       THEN /\ errPrinted' = TRUE
            /\ fatal' = "query"
            /\ exit' = "0"
            /\ pc' = "done"
            /\ UNCHANGED <<conn, regionId>>
       ELSE \E selection \in ValidRegionIds \cup {"invalid"} :
              IF selection = "invalid"
              THEN /\ errPrinted' = TRUE
                   /\ fatal' = IF ValidRegionIds = {} THEN "noregion" ELSE "none"
                   /\ conn' = "closed"
                   /\ exit' = "0"
                   /\ pc' = "done"
                   /\ UNCHANGED regionId
              ELSE /\ regionId' = selection
                   /\ pc' = "tables"
                   /\ UNCHANGED <<conn, errPrinted, fatal, exit>>
  /\ UNCHANGED <<nodeEnv, pull, mw, setup, route, script, region, schema, db, db0, ids, ii, ti, report, total,
                 attempted, okLog, failures, success, run, prev>>

\* one iteration of for (const table of tables)
FRTable ==
  /\ pc = "tables"
  /\ script = "fix-regions"
  /\ ti <= Len(tables(script))
  /\ LET t == tables(script)[ti]
         old == ids[1]
     IN /\ attempted' = [attempted EXCEPT ![ti] = 1]
        /\ \/ /\ ~Updatable(t)
              /\ report' = [report EXCEPT ![ti] = CatchLine(script)]
              /\ ti' = Continue(ti)
              /\ db' = Caught(db)
              /\ UNCHANGED <<okLog, failures, total>>
           \/ /\ Updatable(t)
              /\ failures < MaxFailures
              /\ failures' = failures + 1
              /\ report' = [report EXCEPT ![ti] = CatchLine(script)]
              /\ ti' = Continue(ti)
              /\ db' = Caught(db)
              /\ UNCHANGED <<okLog, total>>
           \/ /\ Updatable(t)
              /\ LET rowCount == RowCount(db[t], old)
                 IN /\ db' = [db EXCEPT ![t] = Update(db[t], regionId, old)]
                    /\ okLog' = okLog \cup {<<old, t>>}
                    /\ report' = [report EXCEPT ![ti] =
                         IF rowCount > 0 THEN Line("updated", rowCount)
                         ELSE Line("none", 0)]
                    /\ total' = total + rowCount
              /\ ti' = ti + 1
              /\ UNCHANGED failures
  /\ UNCHANGED <<nodeEnv, pull, mw, setup, route, script, region, schema, db0, pc, conn, ids, regionId, ii,
                 fatal, exit, success, errPrinted, run, prev>>

\* the completion messages and client.end
FRFinish ==
  /\ pc = "tables"
  /\ script = "fix-regions"
  /\ ti > Len(tables(script))
  /\ conn' = "closed"
  /\ success' = TRUE
  /\ exit' = "0"
  /\ pc' = "done"
  /\ UNCHANGED <<nodeEnv, pull, mw, setup, route, script, region, schema, db, db0, ids, regionId, ii, ti,
                 report, total, attempted, okLog, failures, fatal, errPrinted,
                 run, prev>>

(* ------------------- the local development setup script --------------- *)
\* the choice made among all the rows of region, deleted ones included
ReplacementsUnfiltered ==
  LET usRegions == {id \in AllRegionIds : currency_code(id) = "usd"}
      euRegions == {id \in AllRegionIds : currency_code(id) = "eur"}
  IN IF usRegions # {} THEN usRegions
     ELSE IF euRegions # {} THEN euRegions
     ELSE AllRegionIds

\* usRegion || euRegion || availableRegions[0]; both branches of the choice
\* in main give this region
Replacements ==
  LET usRegions == {id \in ValidRegionIds : currency_code(id) = "usd"}
      euRegions == {id \in ValidRegionIds : currency_code(id) = "eur"}
  IN IF usRegions # {} THEN usRegions
     ELSE IF euRegions # {} THEN euRegions
     ELSE ValidRegionIds

\* the safety check at the top of the script: console.error, process.exit(1)
SDGuard ==
  /\ pc = "start"
  /\ script = "setup-local-dev"
  /\ nodeEnv = "production"
  /\ errPrinted' = TRUE
  /\ exit' = "1"
  /\ pc' = "done"
  /\ UNCHANGED <<nodeEnv, pull, mw, setup, route, script, region, schema, db, db0, conn, ids,
                 regionId, ii, ti, report, total, attempted, okLog, failures,
                 fatal, success, run, prev>>

\* detectFrontendRegionIds, client.connect, getAvailableRegions and the
\* filter of the detected ids against the available regions
SDStart ==
  /\ pc = "start"
  /\ script = "setup-local-dev"
  /\ nodeEnv # "production"
  /\ \E detectedRegionIds \in DetectedInputs, queryOk \in BOOLEAN :
       LET problemRegions ==
             SelectSeq(detectedRegionIds, LAMBDA id : id \notin ValidRegionIds)
       IN IF ~queryOk
          THEN /\ errPrinted' = TRUE
               /\ fatal' = "query"
               /\ exit' = "1"
               /\ pc' = "done"
               /\ UNCHANGED <<conn, ids, regionId, success>>
          ELSE IF problemRegions = <<>>
          THEN /\ conn' = "closed"
               /\ success' = TRUE
               /\ exit' = "0"
               /\ pc' = "done"
               /\ UNCHANGED <<ids, regionId, errPrinted, fatal>>
          ELSE IF ValidRegionIds = {}
          THEN \* no replacementRegion for any id; availableRegions[0].id
               \* throws when the fix script is generated
               /\ conn' = "open"
               /\ ids' = problemRegions
               /\ errPrinted' = TRUE
               /\ fatal' = "noregion"
               /\ exit' = "1"
               /\ pc' = "done"
               /\ UNCHANGED <<regionId, success>>
          ELSE /\ conn' = "open"
               /\ ids' = problemRegions
               /\ \E r \in Replacements : regionId' = r
               /\ pc' = "tables"
               /\ UNCHANGED <<errPrinted, fatal, exit, success>>
  /\ UNCHANGED <<nodeEnv, pull, mw, setup, route, script, region, schema, db, db0, ii, ti, report, total,
                 attempted, okLog, failures, run, prev>>

\* one iteration of the loop of updateRegionReferences(client, ids[ii], regionId)
SDTable ==
  /\ pc = "tables"
  /\ script = "setup-local-dev"
  /\ ti <= Len(tables(script))
  /\ LET t == tables(script)[ti]
         old == ids[ii]
     IN \/ /\ ~TableExists(t)
           /\ ti' = ti + 1
           /\ UNCHANGED <<db, okLog, failures, total, report, attempted>>
        \/ /\ TableExists(t) /\ ~ColumnExists(t)
           /\ ti' = ti + 1
           /\ UNCHANGED <<db, okLog, failures, total, report, attempted>>
        \/ /\ TableExists(t) /\ ColumnExists(t)
           /\ attempted' = [attempted EXCEPT ![ti] = @ + 1]
           /\ \/ /\ ~Updatable(t)
                 /\ report' = [report EXCEPT ![ti] = CatchLine(script)]
                 /\ ti' = Continue(ti)
                 /\ db' = Caught(db)
                 /\ UNCHANGED <<okLog, failures, total>>
              \/ /\ Updatable(t)
                 /\ failures < MaxFailures
                 /\ failures' = failures + 1
                 /\ report' = [report EXCEPT ![ti] = CatchLine(script)]
                 /\ ti' = Continue(ti)
                 /\ db' = Caught(db)
                 /\ UNCHANGED <<okLog, total>>
              \/ /\ Updatable(t)
                 /\ LET rowCount == RowCount(db[t], old)
                    IN /\ db' = [db EXCEPT ![t] = Update(db[t], regionId, old)]
                       /\ okLog' = okLog \cup {<<old, t>>}
                       /\ report' = [report EXCEPT ![ti] =
                            IF rowCount > 0 THEN Line("updated", rowCount)
                            ELSE Line("none", 0)]
                       /\ total' = IF rowCount > 0 THEN total + 1 ELSE total
                 /\ ti' = ti + 1
                 /\ UNCHANGED failures
  /\ UNCHANGED <<nodeEnv, pull, mw, setup, route, script, region, schema, db0, pc, conn, ids, regionId, ii,
                 fatal, exit, success, errPrinted, run, prev>>

\* updateRegionReferences returned: the next problem id of the loop in main
SDNextId ==
  /\ pc = "tables"
  /\ script = "setup-local-dev"
  /\ ti > Len(tables(script))
  /\ ii < Len(ids)
  /\ ii' = ii + 1
  /\ ti' = 1
  /\ report' = Blank(script)
  /\ total' = 0
  /\ UNCHANGED <<nodeEnv, pull, mw, setup, route, script, region, schema, db, db0, pc, conn, ids, regionId,
                 attempted, okLog, failures, fatal, exit, success, errPrinted,
                 run, prev>>

\* generateRegionFixScript, client.end and the rest of the setup
SDFinish ==
  /\ pc = "tables"
  /\ script = "setup-local-dev"
  /\ ti > Len(tables(script))
  /\ ii = Len(ids)
  /\ conn' = "closed"
  /\ success' = TRUE
  /\ exit' = "0"
  /\ pc' = "done"
  /\ UNCHANGED <<nodeEnv, pull, mw, setup, route, script, region, schema, db, db0, ids, regionId, ii, ti,
                 report, total, attempted, okLog, failures, fatal, errPrinted,
                 run, prev>>

(* ------------------------- a second run in succession ----------------- *)
\* the script is started again on the database the first run left, and is
\* given the same id to replace and the same replacement
Rerun ==
  /\ pc = "done"
  /\ run = 1
  /\ success
  /\ regionId # NULL
  /\ script \in {"fix-regions", "setup-local-dev"}
  /\ run' = 2
  /\ prev' = okLog
  /\ okLog' = {}
  /\ pc' = "tables"
  /\ ii' = 1
  /\ ti' = 1
  /\ report' = Blank(script)
  /\ total' = 0
  /\ attempted' = Zero(script)
  /\ conn' = "open"
  /\ success' = FALSE
  /\ exit' = "running"
  /\ UNCHANGED <<nodeEnv, pull, mw, setup, route, script, region, schema, db, db0, ids, regionId, failures,
                 fatal, errPrinted>>

Next ==
  \/ RegionQuery
  \/ Discover
  \/ AutoTable
  \/ AutoFinish
  \/ FRConnect
  \/ FRPrompt
  \/ FRSelect
  \/ FRTable
  \/ FRFinish
  \/ SDGuard
  \/ SDStart
  \/ SDTable
  \/ SDNextId
  \/ SDFinish

Spec == Init /\ [][Next]_vars

\* two runs in succession of a script that reports row counts
NextTwice ==
  \/ FRConnect
  \/ FRPrompt
  \/ FRSelect
  \/ FRTable
  \/ FRFinish
  \/ SDStart
  \/ SDTable
  \/ SDNextId
  \/ SDFinish
  \/ Rerun

\* the scripts that report row counts
InitTwice == Start({"fix-regions", "setup-local-dev"}) /\ nodeEnv = "development"

SpecTwice == InitTwice /\ [][NextTwice]_vars

(* ---------------------- main of pull-remote-db.js --------------------- *)
\* the state of the scripts above, which main of pull-remote-db.js leaves alone
fixVars ==
  <<script, region, schema, db, db0, pc, conn, ids, regionId, ii, ti, report,
    total, attempted, okLog, failures, fatal, exit, success, errPrinted, run,
    prev>>

\* main starts: RAILWAY_DB_URL is set or not, the local database exists or
\* not, tmp/prod_dump.sql is left from an earlier run or not
PullStarts ==
  {[PullIdle EXCEPT !.pc = "url", !.envUrl = e, !.localDb = l,
                    !.localDb0 = l, !.dumpFile = d] :
     e \in BOOLEAN, l \in {"absent", "old"}, d \in {"absent", "stale"}}

\* what follows a step in the text of main
After(step) ==
  CASE step = "dump" -> "confirm"
    [] step = "drop" -> "create"
    [] step = "create" -> "import"
    [] step = "import" -> "migrate"
    [] step = "migrate" -> "fix"
    [] step = "fix" -> "done"

\* a main that goes on after a step that failed
OnErrorGoOn(step) == After(step)

\* every catch of main ends the run: process.exit(1), return, or the outer
\* catch that only prints
OnError(step) == "done"

\* answer.toLowerCase() for the answers considered
ToLower(answer) == IF answer = "Y" THEN "y" ELSE answer

\* the answers to the question before the overwrite
Answers == {"y", "Y", "n", ""}

\* a question that only n cancels
DeclinesOnlyN(confirmImport) == confirmImport = "n"

\* confirmImport.toLowerCase() !== "y"
Declines(confirmImport) == ToLower(confirmImport) # "y"

\* the record of a step that was started and succeeded or failed
Ran(step, succeeded) ==
  [pull EXCEPT !.started = Append(@, step),
               !.ok = IF succeeded THEN @ \cup {step} ELSE @,
               !.errPrinted = IF succeeded THEN @ ELSE TRUE,
               !.pc = IF succeeded THEN After(step) ELSE OnError(step)]

\* Step 1: process.env.RAILWAY_DB_URL or the prompt; an empty answer throws
PullUrl ==
  /\ pull.pc = "url"
  /\ \/ /\ pull.envUrl
        /\ pull' = [pull EXCEPT !.pc = "dump"]
     \/ /\ ~pull.envUrl
        /\ \E answer \in {"", "postgresql://railway"} :
             pull' = IF answer = ""
                     THEN [pull EXCEPT !.pc = "done", !.errPrinted = TRUE, !.exit = "0"]
                     ELSE [pull EXCEPT !.pc = "dump"]
  /\ UNCHANGED <<nodeEnv, mw, setup, route, fixVars>>

\* Step 2: pg_dump > tmp/prod_dump.sql; on error process.exit(1)
PullDump ==
  /\ pull.pc = "dump"
  /\ \E succeeded \in BOOLEAN :
       pull' = [Ran("dump", succeeded) EXCEPT
                  !.dumpFile = IF succeeded THEN "fresh" ELSE "partial",
                  !.exit = IF succeeded THEN @ ELSE "1"]
  /\ UNCHANGED <<nodeEnv, mw, setup, route, fixVars>>

\* Step 3: the question before the local database is overwritten
PullConfirm ==
  /\ pull.pc = "confirm"
  /\ \E confirmImport \in Answers :
       pull' = IF Declines(confirmImport)
               THEN [pull EXCEPT !.pc = "done", !.exit = "0",
                                 !.answer = confirmImport]
               ELSE [pull EXCEPT !.pc = "drop", !.answer = confirmImport]
  /\ UNCHANGED <<nodeEnv, mw, setup, route, fixVars>>

\* dropdb --if-exists
PullDrop ==
  /\ pull.pc = "drop"
  /\ \E succeeded \in BOOLEAN :
       pull' = [Ran("drop", succeeded) EXCEPT
                  !.localDb = IF succeeded THEN "absent" ELSE @,
                  !.exit = IF succeeded THEN @ ELSE "0"]
  /\ UNCHANGED <<nodeEnv, mw, setup, route, fixVars>>

\* createdb
PullCreate ==
  /\ pull.pc = "create"
  /\ \E succeeded \in BOOLEAN :
       pull' = [Ran("create", succeeded) EXCEPT
                  !.localDb = IF succeeded THEN "empty" ELSE @,
                  !.exit = IF succeeded THEN @ ELSE "0"]
  /\ UNCHANGED <<nodeEnv, mw, setup, route, fixVars>>

\* psql < tmp/prod_dump.sql
PullImport ==
  /\ pull.pc = "import"
  /\ \E succeeded \in BOOLEAN :
       pull' = [Ran("import", succeeded) EXCEPT
                  !.localDb = IF succeeded THEN "imported" ELSE "partial",
                  !.exit = IF succeeded THEN @ ELSE "0"]
  /\ UNCHANGED <<nodeEnv, mw, setup, route, fixVars>>

\* Step 4: runDatabaseMigrations; it rethrows, the outer catch of main prints
PullMigrate ==
  /\ pull.pc = "migrate"
  /\ \E succeeded \in BOOLEAN :
       pull' = [Ran("migrate", succeeded) EXCEPT
                  !.localDb = IF succeeded THEN "migrated" ELSE @,
                  !.exit = IF succeeded THEN @ ELSE "0"]
  /\ UNCHANGED <<nodeEnv, mw, setup, route, fixVars>>

\* Step 5: fixRegionReferences, then the success messages; it rethrows, the
\* outer catch of main prints
PullFix ==
  /\ pull.pc = "fix"
  /\ \E succeeded \in BOOLEAN :
       pull' = [Ran("fix", succeeded) EXCEPT
                  !.localDb = IF succeeded THEN "fixed" ELSE @,
                  !.success = succeeded,
                  !.exit = "0"]
  /\ UNCHANGED <<nodeEnv, mw, setup, route, fixVars>>

NextPull ==
  \/ PullUrl
  \/ PullDump
  \/ PullConfirm
  \/ PullDrop
  \/ PullCreate
  \/ PullImport
  \/ PullMigrate
  \/ PullFix

\* main of pull-remote-db.js starts; no other script runs
InitPull ==
  /\ nodeEnv \in NodeEnvs
  /\ pull \in PullStarts
  /\ mw = MwIdle
  /\ setup = SetupIdle
  /\ route = RouteIdle
  /\ script = "update-db"
  /\ region = [id \in RegionIds |-> "absent"]
  /\ schema = [t \in DbTables |-> "ok"]
  /\ db = [t \in DbTables |-> <<>>]
  /\ db0 = db
  /\ pc = "idle"
  /\ conn = "none"
  /\ ids = <<>>
  /\ regionId = NULL
  /\ ii = 1
  /\ ti = 1
  /\ report = Blank(script)
  /\ total = 0
  /\ attempted = Zero(script)
  /\ okLog = {}
  /\ failures = 0
  /\ fatal = "none"
  /\ exit = "running"
  /\ success = FALSE
  /\ errPrinted = FALSE
  /\ run = 1
  /\ prev = {}

SpecPull == InitPull /\ [][NextPull]_vars

\* the scripts of the fix are not running
Parked ==
  /\ script = "update-db"
  /\ region = [id \in RegionIds |-> "absent"]
  /\ schema = [t \in DbTables |-> "ok"]
  /\ db = [t \in DbTables |-> <<>>]
  /\ db0 = db
  /\ pc = "idle"
  /\ conn = "none"
  /\ ids = <<>>
  /\ regionId = NULL
  /\ ii = 1
  /\ ti = 1
  /\ report = Blank(script)
  /\ total = 0
  /\ attempted = Zero(script)
  /\ okLog = {}
  /\ failures = 0
  /\ fatal = "none"
  /\ exit = "running"
  /\ success = FALSE
  /\ errPrinted = FALSE
  /\ run = 1
  /\ prev = {}

(* ------------- setup-local-db.js and the all-in-one setup tool -------- *)
\* the command line flags of setup-local-db.js
Flags ==
  {"--download-only", "--fix-regions-only", "--skip-download", "--skip-import",
   "--skip-fixes", "--skip-migrations", "--no-start"}

downloadOnly(args) == "--download-only" \in args
fixRegionsOnly(args) == "--fix-regions-only" \in args
skipDownload(args) == "--skip-download" \in args
skipImport(args) == "--skip-import" \in args \/ downloadOnly(args)
skipFixes(args) == "--skip-fixes" \in args
skipMigrations(args) == "--skip-migrations" \in args
noStart(args) == "--no-start" \in args

\* the two scripts: setup-local-db.js takes flags and starts with the
\* download; the all-in-one tool takes none and starts with the question
SetupScripts == {"setup-local-db", "all-in-one"}

\* where main of setup-local-db.js goes on after the region fix, after the
\* migrations, after the import, after the download block, and at its start
AfterFixes(args) == IF ~noStart(args) THEN "servers" ELSE "done"
AfterMigrations(args) == IF ~skipFixes(args) THEN "fix" ELSE AfterFixes(args)
AfterImport(args) ==
  IF ~skipMigrations(args) THEN "migrate" ELSE AfterMigrations(args)
AfterDownload(args) ==
  IF fixRegionsOnly(args) THEN "fixonly"
  ELSE IF ~skipImport(args) THEN "confirm"
  ELSE AfterImport(args)
Entry(args) ==
  IF ~skipDownload(args) /\ ~fixRegionsOnly(args) THEN "url"
  ELSE AfterDownload(args)

\* main starts: the flags, RAILWAY_DB_URL set or not, the local database
\* there or not, a dump file left from an earlier run or not
SetupStarts ==
  {[SetupIdle EXCEPT !.pc = Entry(a), !.flags = a, !.envUrl = e, !.localDb = l,
                     !.localDb0 = l, !.dumpFile = d] :
     a \in SUBSET Flags, e \in BOOLEAN, l \in {"absent", "old"},
     d \in {"absent", "stale"}}
  \cup
  {[SetupIdle EXCEPT !.pc = "confirm", !.script = "all-in-one", !.localDb = l,
                     !.localDb0 = l, !.dumpFile = d] :
     l \in {"absent", "old"}, d \in {"absent", "stale"}}

\* the record of a step that was started, succeeded or failed, and what
\* main does next
SetupRan(step, succeeded, next) ==
  [setup EXCEPT !.started = Append(@, step),
                !.ok = IF succeeded THEN @ \cup {step} ELSE @,
                !.pc = next]

\* setup-local-db.js after a failed pg_dump: process.exit(1) with
\* --download-only, else "Continuing with existing dump file if available"
DumpFailed(args) == IF downloadOnly(args) THEN "done" ELSE AfterDownload(args)

\* Step 1 of setup-local-db.js: RAILWAY_DB_URL or the prompt; an empty
\* answer throws and the catch ends the process
SetupUrl ==
  /\ setup.pc = "url"
  /\ \/ /\ setup.envUrl
        /\ setup' = [setup EXCEPT !.pc = "dump"]
     \/ /\ ~setup.envUrl
        /\ \E railwayDatabaseUrl \in {"", "postgresql://railway"} :
             setup' = [setup EXCEPT !.pc = IF railwayDatabaseUrl = ""
                                           THEN "done" ELSE "dump"]
  /\ UNCHANGED <<nodeEnv, pull, mw, route, fixVars>>

\* pg_dump > dump file: the shell truncates the file before pg_dump runs.
\* The all-in-one tool exits when it fails
SetupDump ==
  /\ setup.pc = "dump"
  /\ \E succeeded \in BOOLEAN :
       LET next ==
             IF setup.script = "all-in-one"
             THEN (IF succeeded THEN "drop" ELSE "done")
             ELSE IF succeeded
                  THEN (IF downloadOnly(setup.flags) THEN "done"
                        ELSE AfterDownload(setup.flags))
                  ELSE DumpFailed(setup.flags)
       IN setup' = [SetupRan("dump", succeeded, next) EXCEPT
                      !.dumpFile = IF succeeded THEN "fresh" ELSE "partial"]
  /\ UNCHANGED <<nodeEnv, pull, mw, route, fixVars>>

\* --fix-regions-only: fixRegionReferences, then return
SetupFixOnly ==
  /\ setup.pc = "fixonly"
  /\ \E succeeded \in BOOLEAN :
       setup' = [SetupRan("fix", succeeded, "done") EXCEPT
                   !.localDb = IF succeeded THEN "fixed" ELSE @]
  /\ UNCHANGED <<nodeEnv, pull, mw, route, fixVars>>

\* the question before the local database is overwritten
SetupConfirm ==
  /\ setup.pc = "confirm"
  /\ \E confirmImport \in Answers :
       setup' = [setup EXCEPT
                   !.answer = confirmImport,
                   !.pc = IF Declines(confirmImport) THEN "done"
                          ELSE IF setup.script = "all-in-one" THEN "dump"
                          ELSE "drop"]
  /\ UNCHANGED <<nodeEnv, pull, mw, route, fixVars>>

\* dropdb --if-exists; the catch returns
SetupDrop ==
  /\ setup.pc = "drop"
  /\ \E succeeded \in BOOLEAN :
       setup' = [SetupRan("drop", succeeded,
                          IF succeeded THEN "create" ELSE "done") EXCEPT
                   !.localDb = IF succeeded THEN "absent" ELSE @]
  /\ UNCHANGED <<nodeEnv, pull, mw, route, fixVars>>

\* createdb; the catch returns
SetupCreate ==
  /\ setup.pc = "create"
  /\ \E succeeded \in BOOLEAN :
       setup' = [SetupRan("create", succeeded,
                          IF succeeded THEN "import" ELSE "done") EXCEPT
                   !.localDb = IF succeeded THEN "empty" ELSE @]
  /\ UNCHANGED <<nodeEnv, pull, mw, route, fixVars>>

\* psql < dump file; the catch returns
SetupImport ==
  /\ setup.pc = "import"
  /\ \E succeeded \in BOOLEAN :
       LET next == IF ~succeeded THEN "done"
                   ELSE IF setup.script = "all-in-one" THEN "migrate"
                   ELSE AfterImport(setup.flags)
       IN setup' = [SetupRan("import", succeeded, next) EXCEPT
                      !.localDb = IF succeeded THEN "imported" ELSE "partial"]
  /\ UNCHANGED <<nodeEnv, pull, mw, route, fixVars>>

\* npx medusa db:migrate; it rethrows and the outer catch of main prints
SetupMigrate ==
  /\ setup.pc = "migrate"
  /\ \E succeeded \in BOOLEAN :
       LET next == IF ~succeeded THEN "done"
                   ELSE IF setup.script = "all-in-one" THEN "fix"
                   ELSE AfterMigrations(setup.flags)
       IN setup' = [SetupRan("migrate", succeeded, next) EXCEPT
                      !.localDb = IF succeeded THEN "migrated" ELSE @]
  /\ UNCHANGED <<nodeEnv, pull, mw, route, fixVars>>

\* fixRegionReferences: in setup-local-db.js its catch only prints and main
\* goes on; in the all-in-one tool it rethrows
SetupFix ==
  /\ setup.pc = "fix"
  /\ \E succeeded \in BOOLEAN :
       LET next == IF setup.script = "all-in-one"
                   THEN (IF succeeded THEN "verify" ELSE "done")
                   ELSE AfterFixes(setup.flags)
       IN setup' = [SetupRan("fix", succeeded, next) EXCEPT
                      !.localDb = IF succeeded THEN "fixed" ELSE @]
  /\ UNCHANGED <<nodeEnv, pull, mw, route, fixVars>>

\* verifyDatabaseIntegrity of the all-in-one tool, which may add a column
SetupVerify ==
  /\ setup.pc = "verify"
  /\ \E succeeded \in BOOLEAN :
       setup' = [SetupRan("verify", succeeded, "done") EXCEPT
                   !.localDb = IF succeeded THEN "verified" ELSE @]
  /\ UNCHANGED <<nodeEnv, pull, mw, route, fixVars>>

\* startDevelopmentServers: the question, then the two spawns
SetupServers ==
  /\ setup.pc = "servers"
  /\ \E startServers \in Answers :
       setup' = [setup EXCEPT !.pc = "done",
                              !.servers = ~Declines(startServers)]
  /\ UNCHANGED <<nodeEnv, pull, mw, route, fixVars>>

\* one of the import scripts is started
InitImport ==
  /\ nodeEnv = "development"
  /\ \/ pull \in PullStarts /\ setup = SetupIdle
     \/ pull = PullIdle /\ setup \in SetupStarts
  /\ mw = MwIdle
  /\ route = RouteIdle
  /\ Parked

NextImport ==
  \/ PullUrl
  \/ PullDump
  \/ PullConfirm
  \/ PullDrop
  \/ PullCreate
  \/ PullImport
  \/ PullMigrate
  \/ PullFix
  \/ SetupUrl
  \/ SetupDump
  \/ SetupFixOnly
  \/ SetupConfirm
  \/ SetupDrop
  \/ SetupCreate
  \/ SetupImport
  \/ SetupMigrate
  \/ SetupFix
  \/ SetupVerify
  \/ SetupServers

SpecImport == InitImport /\ [][NextImport]_vars

(* ------------------------ storefront middleware ----------------------- *)
\* the hours of 1000 * 60 * 60 * 24 milliseconds
Day == 24

\* iso_2 codes of the countries the backend may list, the regions it may put
\* them in, and the values of NEXT_PUBLIC_DEFAULT_REGION || "us"
Countries == {"us", "de"}
StoreRegions == {R1, R2}
DefaultRegions == {"us", "dk"}

\* a Map from country code to region, "none" where the Map has no entry;
\* also the countries of the regions of a response of GET /store/regions
RegionMaps == [Countries -> StoreRegions \cup {"none"}]
EmptyMap == [c \in Countries |-> "none"]

\* request paths, as their segments, and values of the x-vercel-country header
Paths == {<<>>, <<"us">>, <<"de", "store">>, <<"store">>}
CountryHeaders == {"", "US", "DE", "FR"}

\* the amounts of time that pass between two requests
TickHours == {12, 13}

\* header.toLowerCase() for the headers considered
LowerCountry(h) ==
  CASE h = "US" -> "us" [] h = "DE" -> "de" [] h = "FR" -> "fr" [] OTHER -> h

\* regionMap.size
MapSize(m) == Cardinality({c \in Countries : m[c] # "none"})

\* countryCodeExists
countryCodeExists(countryCode, m) ==
  countryCode \in Countries /\ m[countryCode] # "none"

\* a cache that is never fresh
StaleAlways(updated, now) == TRUE

\* regionMapUpdated < Date.now() - 1000 * 60 * 60 * 24
Stale(updated, now) == updated < now - Day

\* regionMap.set(c.iso_2.toLowerCase(), region) for the countries in S of
\* the regions of the response
SetAll(m, regions, S) ==
  [c \in Countries |-> IF c \in S /\ regions[c] # "none" THEN regions[c] ELSE m[c]]

\* getCountryCodeFromUrl
getCountryCodeFromUrl(path) == IF path = <<>> THEN "" ELSE path[1]

\* the fallback of the redirect: DEFAULT_REGION, whatever the map holds
Fallback(m, def) == def

\* the answer of middleware once getRegionMap has returned m
Respond(m, path, header, def) ==
  LET countryCode == getCountryCodeFromUrl(path)
  IN IF countryCode = ""
     THEN LET fromHeader == IF header = "" THEN def ELSE LowerCountry(header)
              defaultCountryCode ==
                IF countryCodeExists(fromHeader, m) THEN fromHeader
                ELSE Fallback(m, def)
          IN [kind |-> "redirect", path |-> <<defaultCountryCode>> \o path,
              cookie |-> "none"]
     ELSE [kind |-> "next", path |-> path,
           cookie |-> IF countryCodeExists(countryCode, m) THEN m[countryCode]
                      ELSE "none"]

\* the module is loaded: an empty Map, regionMapUpdated = Date.now()
MwStarts ==
  {[MwIdle EXCEPT !.pc = "serving", !.build = b, !.def = d, !.backend = r,
                  !.regionMap = EmptyMap] :
     b \in BOOLEAN, d \in DefaultRegions, r \in RegionMaps}

\* what a fetch of /store/regions may come to: a usable response, a network
\* error, a status that is not OK, a body that is not JSON, a body without
\* regions, a body with a country that has no iso_2
FetchOutcomes == {"ok", "neterr", "status", "badjson", "noregions", "badcountry"}

\* one request: middleware, with its call of getRegionMap
MwRequest ==
  /\ mw.pc = "serving"
  /\ \E path \in Paths, header \in CountryHeaders :
       IF mw.build \/ ~(MapSize(mw.regionMap) = 0 \/ Stale(mw.regionMapUpdated, mw.now))
       THEN mw' = [mw EXCEPT !.req = 1 - @, !.fetched = FALSE, !.outcome = "none",
                             !.path = path,
                             !.response = Respond(mw.regionMap, path, header, mw.def)]
       ELSE \E outcome \in FetchOutcomes :
              \E S \in SUBSET {c \in Countries : mw.backend[c] # "none"} :
                /\ outcome = "ok" => S = {c \in Countries : mw.backend[c] # "none"}
                /\ outcome = "badcountry" => S # {c \in Countries : mw.backend[c] # "none"}
                /\ outcome \notin {"ok", "badcountry"} => S = {}
                /\ LET m == SetAll(mw.regionMap, mw.backend, S)
                   IN mw' = [mw EXCEPT
                               !.req = 1 - @,
                               !.fetched = TRUE,
                               !.outcome = outcome,
                               !.regionMap = m,
                               !.regionMapUpdated = IF outcome = "ok" THEN mw.now ELSE @,
                               !.path = path,
                               !.response = Respond(m, path, header, mw.def)]
  /\ UNCHANGED <<nodeEnv, pull, setup, route, fixVars>>

\* time passes between two requests
MwTick ==
  /\ mw.pc = "serving"
  /\ \E h \in TickHours :
       /\ mw.now + h <= MaxHours
       /\ mw' = [mw EXCEPT !.now = @ + h, !.fetched = FALSE, !.outcome = "none",
                            !.path = <<>>, !.response = [kind |-> "none"]]
  /\ UNCHANGED <<nodeEnv, pull, setup, route, fixVars>>

\* the regions of the backend are edited: a country is added to a region,
\* moved to another or removed
MwBackendChange ==
  /\ mw.pc = "serving"
  /\ \E c \in Countries :
     \E v \in (StoreRegions \cup {"none"}) \ {mw.backend[c]} :
       mw' = [mw EXCEPT !.backend[c] = v, !.fetched = FALSE,
                        !.outcome = "none", !.path = <<>>,
                        !.response = [kind |-> "none"]]
  /\ UNCHANGED <<nodeEnv, pull, setup, route, fixVars>>

NextMw ==
  \/ MwRequest
  \/ MwTick
  \/ MwBackendChange

InitMw ==
  /\ nodeEnv = "production"
  /\ pull = PullIdle
  /\ mw \in MwStarts
  /\ setup = SetupIdle
  /\ route = RouteIdle
  /\ Parked

SpecMw == InitMw /\ [][NextMw]_vars

(* --------------------------- add-to-cart route ------------------------ *)
\* the ids the backend gives to carts, and the variants of the store
RouteCartIds == {"cart_1", "cart_2"}
Variants == {"variant_1", "variant_2"}

\* a response with success: false, and one with success: true
Failure(status) ==
  [success |-> FALSE, status |-> status, cart |-> "none", items_count |-> 0]
Success(id, n) ==
  [success |-> TRUE, status |-> 200, cart |-> id, items_count |-> n]

\* the route is deployed: no cart yet, no cookie in the browser
RouteStarts ==
  {[RouteIdle EXCEPT !.pc = "serving",
                     !.carts = [c \in RouteCartIds |-> {}]]}

\* a cart was created under id, the cookie is set to it, and createLineItem
\* succeeded or threw: both ways the answer has success: true
Created(r, id, variantId, lineItemOk) ==
  [r EXCEPT !.live = @ \cup {id},
            !.carts[id] = IF lineItemOk THEN {variantId} ELSE {},
            !.cookie = id,
            !.added = IF lineItemOk THEN id ELSE "none",
            !.response = Success(id, IF lineItemOk THEN 1 ELSE 0)]

\* POST: one request with its body, the cookie of the browser, and what the
\* calls of the backend come to
RoutePost ==
  /\ route.pc = "serving"
  /\ \E variantId \in Variants \cup {""}, countryCode \in {"", "us", "xx"},
        regionOk \in BOOLEAN, createOk \in BOOLEAN,
        lineItem \in {"ok", "not found", "other"}, retryOk \in BOOLEAN :
       LET cartId == route.cookie
           free == RouteCartIds \ route.live
           newId == CHOOSE c \in free : TRUE
           r == [route EXCEPT !.req = 1 - @, !.variant = variantId,
                              !.added = "none"]
           thrown == IF cartId \notin route.live /\ lineItem = "ok"
                     THEN "not found" ELSE lineItem
       IN route' =
            IF variantId = "" \/ countryCode = ""
            THEN [r EXCEPT !.response = Failure(400)]
            ELSE IF ~regionOk
            THEN [r EXCEPT !.response = Failure(500)]
            ELSE IF countryCode # "us"
            THEN [r EXCEPT !.response = Failure(400)]
            ELSE IF cartId = "none"
            THEN IF ~createOk \/ free = {}
                 THEN [r EXCEPT !.response = Failure(500)]
                 ELSE Created(r, newId, variantId, lineItem = "ok")
            ELSE IF thrown = "ok"
            THEN [r EXCEPT !.carts[cartId] = @ \cup {variantId},
                           !.added = cartId,
                           !.response =
                             Success(cartId,
                                     Cardinality(route.carts[cartId]
                                                 \cup {variantId}))]
            ELSE IF thrown = "not found"
            THEN IF ~createOk \/ free = {}
                 THEN [r EXCEPT !.response = Failure(500)]
                 ELSE Created(r, newId, variantId, retryOk)
            ELSE [r EXCEPT !.response = Failure(500)]
  /\ UNCHANGED <<nodeEnv, pull, mw, setup, fixVars>>

\* a cart is completed or expires on the backend
RouteCartExpire ==
  /\ route.pc = "serving"
  /\ \E c \in RouteCartIds :
       /\ c \in route.live
       /\ route' = [route EXCEPT !.live = @ \ {c}, !.carts[c] = {}]
  /\ UNCHANGED <<nodeEnv, pull, mw, setup, fixVars>>

NextRoute ==
  \/ RoutePost
  \/ RouteCartExpire

InitRoute ==
  /\ nodeEnv = "production"
  /\ pull = PullIdle
  /\ mw = MwIdle
  /\ setup = SetupIdle
  /\ route \in RouteStarts
  /\ Parked

SpecRoute == InitRoute /\ [][NextRoute]_vars

(* ------------------------------ properties ---------------------------- *)
ListTables == {tables(script)[i] : i \in 1..Len(tables(script))}

\* the ids the run replaces
Replaced == {ids[j] : j \in 1..Len(ids)}

\* the run went through the whole loop over the tables and ended
LoopDone == pc = "done" /\ ti > Len(tables(script))

\* the region table holds a row that is not soft-deleted
SomeValidRegion == \E id \in RegionIds : region[id] = "valid"

\* the tables of the list the database has with a region_id column
Referencing == {t \in ListTables \cap DbTables : schema[t] = "ok"}

\* C1: after the fix has run with the set D of ids and the replacement r,
\* every table of the list that exists and has a region_id column holds no
\* row with a region_id in D, and every row that had one now has r.  Stated
\* for the runs most favourable to it: the database failed no UPDATE, and r
\* is not itself in D.
C1_DanglingRewritten ==
  (LoopDone /\ failures = 0 /\ regionId \notin Replaced) =>
    \A t \in Referencing : \A i \in DOMAIN db[t] :
      /\ db[t][i].region_id \notin Replaced
      /\ db0[t][i].region_id \in Replaced => db[t][i].region_id = regionId

\* C2: after a completed run on a database with a valid region, every
\* non-null region_id of every referencing table is the id of a valid region.
\* Stated for the runs in which the database failed no UPDATE.
C2_AllReferencesValid ==
  (LoopDone /\ SomeValidRegion /\ failures = 0) =>
    \A t \in DbTables : \A i \in DOMAIN db[t] :
      db[t][i].region_id = NULL \/ region[db[t][i].region_id] = "valid"

\* C3: when a valid region has currency usd, the replacement the fix chooses
\* by itself (every script but the interactive one) has currency usd.
C3_UsdPreferred ==
  (/\ script # "fix-regions"
   /\ regionId # NULL
   /\ \E id \in RegionIds : region[id] = "valid" /\ currency_code(id) = "usd")
  => currency_code(regionId) = "usd"

\* C4: the replacement id used in the UPDATE statements is the id of a row of
\* region that exists and is not soft-deleted.
C4_ReplacementValid ==
  regionId # NULL => regionId \in RegionIds /\ region[regionId] = "valid"

\* a run whose UPDATEs used the replacement and rewrote a row
C4_Witness ==
  /\ regionId # NULL
  /\ okLog # {}
  /\ \E t \in DbTables : \E i \in DOMAIN db[t] :
       db[t][i].region_id = regionId /\ db0[t][i].region_id # regionId
  /\ \E id \in RegionIds : region[id] = "deleted"

\* C5: with no valid region the fix sends no UPDATE, and the database is what
\* it was.
C5_NoRegionNoUpdate ==
  ~SomeValidRegion =>
    /\ db = db0
    /\ \A i \in DOMAIN attempted : attempted[i] = 0

\* a database without a valid region whose rows an UPDATE would have matched,
\* at the end of the run
C5_Witness ==
  /\ ~SomeValidRegion
  /\ pc = "done"
  /\ fatal = "noregion"
  /\ region[R1] = "deleted"
  /\ \E t \in DbTables : \E i \in DOMAIN db[t] : db[t][i].region_id = SEED

\* C6: every fatal condition of the fix ends the script in an error outcome:
\* the error is printed, the exit status is not zero, no success message.
C6_FatalEndsInError ==
  (pc = "done" /\ fatal # "none") =>
    errPrinted /\ exit = "1" /\ ~success

\* the rows of table t that hold id
Holding(t, id) == {i \in DOMAIN db[t] : db[t][i].region_id = id}

C8_Frame ==
  \A t \in DbTables :
    /\ DOMAIN db[t] = DOMAIN db0[t]
    /\ \A i \in DOMAIN db[t] :
         /\ db[t][i].key = db0[t][i].key
         /\ db[t][i].region_id # db0[t][i].region_id =>
              db0[t][i].region_id \in Replaced /\ t \in ListTables

\* a finished run that rewrote a row next to a row with a NULL region_id
C8_Witness ==
  /\ pc = "done"
  /\ \E t \in DbTables : \E i \in DOMAIN db[t] :
       db[t][i].region_id # db0[t][i].region_id
  /\ \E t \in DbTables : \E i \in DOMAIN db[t] : db0[t][i].region_id = NULL

FullyOk(t) == \A id \in Replaced : <<id, t>> \in okLog

\* C10: an UPDATE that fails on one table does not keep the fix from the
\* later tables: at the end of the loop every table that can be updated was
\* sent an UPDATE, no more tables are left unfinished than UPDATEs failed,
\* and every other table holds none of the replaced ids.
C10_LaterTablesProcessed ==
  LoopDone =>
    /\ \A i \in DOMAIN attempted : Updatable(tables(script)[i]) => attempted[i] >= 1
    /\ Cardinality({t \in ListTables : Updatable(t) /\ ~FullyOk(t)}) <= failures
    /\ \A t \in ListTables :
         Updatable(t) /\ FullyOk(t) =>
           \A i \in DOMAIN db[t] : db[t][i].region_id \notin Replaced \ {regionId}

\* the UPDATE on cart failed, and rows of customer were rewritten after it
C10_Witness ==
  /\ LoopDone
  /\ Updatable("cart")
  /\ ~FullyOk("cart")
  /\ db["cart"] = db0["cart"]
  /\ db["customer"] # db0["customer"]

\* C11: a run that opened a connection or a pool has closed it when it ends,
\* whichever way it ends.
C11_ConnectionClosed ==
  (pc = "done" /\ conn # "none") => conn = "closed"

\* C12: the rewrite of a table is atomic: at the end of the loop, either
\* every row of the table that referenced one of the ids being replaced
\* references the replacement, or no row of the table was changed.
C12_AtomicPerTable ==
  LoopDone =>
    \A t \in ListTables \cap DbTables :
      \/ \A i \in DOMAIN db[t] :
           db0[t][i].region_id \in Replaced => db[t][i].region_id = regionId
      \/ db[t] = db0[t]

\* C13: no UPDATE is sent to a table of the list that does not exist or has
\* no region_id column.
C13_CheckedBeforeUpdate ==
  \A i \in DOMAIN attempted :
    ~ColumnExists(tables(script)[i]) => attempted[i] = 0

\* C14: when the hardcoded id is the id of a valid region, the automatic fix
\* and the local development setup leave every row that references it as it
\* was.
C14_ValidSeedKept ==
  (script # "fix-regions" /\ region[SEED] = "valid") =>
    \A t \in DbTables : \A i \in DOMAIN db[t] :
      db0[t][i].region_id = SEED => db[t][i].region_id = SEED

\* C15: the ids the automatic fix replaces are the hardcoded id and the
\* distinct non-null region_id values of cart that are not ids of a valid
\* region, each once, and never NULL.
C15_ReplacedSet ==
  (script \in AutoScripts /\ ids # <<>>) =>
    /\ Replaced =
         {SEED} \cup
         {v \in {db0["cart"][i].region_id : i \in DOMAIN db0["cart"]} :
            v # NULL /\ ~(v \in RegionIds /\ region[v] = "valid")}
    /\ \A i, j \in DOMAIN ids : ids[i] = ids[j] => i = j
    /\ NULL \notin Replaced

\* an automatic run that found a second id in a cart that also has a row
\* without a region
C15_Witness ==
  /\ script \in AutoScripts
  /\ pc = "done"
  /\ Len(ids) = 2
  /\ \E i \in DOMAIN db0["cart"] : db0["cart"][i].region_id = NULL

\* the rows of table t whose region_id the run changed
Changed(t) ==
  IF t \in DbTables
  THEN {i \in DOMAIN db[t] : db[t][i].region_id # db0[t][i].region_id}
  ELSE {}

\* the rows of table t that held id when the run started
Matched(t, id) ==
  IF t \in DbTables
  THEN {i \in DOMAIN db0[t] : db0[t][i].region_id = id}
  ELSE {}

\* the sum of the row counts printed for the tables
SumReported ==
  Cardinality(UNION {{<<i, j>> : j \in 1..report[i].n} : i \in DOMAIN report})

C17_ProductionGuard ==
  nodeEnv = "production" =>
    /\ conn = "none"
    /\ db = db0
    /\ \A i \in DOMAIN attempted : attempted[i] = 0

\* C18: pull-remote-db.js starts its steps in the order dump, drop, create,
\* import, migrate, fix; a step is started only when the step before it
\* succeeded, and the region fix only after the migrations succeeded.
C18_StepOrder ==
  LET st == pull.started
  IN /\ Len(st) <= Len(PullSteps)
     /\ \A k \in DOMAIN st : st[k] = PullSteps[k]
     /\ \A k \in DOMAIN st : k > 1 => st[k - 1] \in pull.ok
     /\ (\E k \in DOMAIN st : st[k] = "fix") => "migrate" \in pull.ok

\* a run of main in which every step was started and succeeded
C18_Witness ==
  /\ pull.pc = "done"
  /\ pull.started = PullSteps
  /\ pull.success
  /\ pull.localDb = "fixed"

\* C19: every table that exists and has a region_id column is sent one
\* UPDATE for every id being replaced, whatever the outcome of the UPDATEs
\* for the other ids on that table.
C19_OneUpdatePerId ==
  LoopDone =>
    \A i \in DOMAIN attempted :
      ColumnExists(tables(script)[i]) => attempted[i] = Len(ids)

\* C20: a run of fixRegionReferences, of main of fix-regions.js, or a call
\* of updateRegionReferences is one linear pass: the tables are visited one
\* after the other in the order of the list, an UPDATE is sent only to the
\* table being visited, and the run ends either before any UPDATE was sent
\* or after the last table of the list, without a fatal error.
C20_LinearPass ==
  [][/\ ti' # ti =>
          \/ /\ pc = "tables"
             /\ ti <= Len(tables(script))
             /\ ti' = ti + 1
          \/ /\ script = "setup-local-dev"
             /\ ti > Len(tables(script))
             /\ ii' = ii + 1
             /\ ti' = 1
     /\ attempted' # attempted =>
          /\ ti' = ti + 1
          /\ \A i \in DOMAIN attempted : i # ti => attempted'[i] = attempted[i]
     /\ (pc # "done" /\ pc' = "done") =>
          \/ \A i \in DOMAIN attempted : attempted[i] = 0
          \/ ti > Len(tables(script)) /\ fatal' = "none"]_vars

\* an automatic run that went through its whole list, had an UPDATE fail on
\* the way and rewrote rows
C20_Witness ==
  /\ LoopDone
  /\ script \in AutoScripts
  /\ failures >= 1
  /\ db # db0

C28_ReplacementNotReplaced ==
  regionId # NULL => regionId \notin Replaced

\* C22: a request makes getRegionMap fetch the regions only when the cached
\* map is empty or was refreshed more than 24 hours ago; any other request
\* leaves the cache as it is; a refresh that succeeds sets regionMapUpdated
\* to the time of the request.
C22_FetchOnlyWhenStale ==
  [][mw'.req # mw.req =>
       /\ mw'.fetched =>
            \/ \A c \in Countries : mw.regionMap[c] = "none"
            \/ mw.now - mw.regionMapUpdated > Day
       /\ ~mw'.fetched =>
            /\ mw'.regionMap = mw.regionMap
            /\ mw'.regionMapUpdated = mw.regionMapUpdated
       /\ (mw'.fetched /\ mw'.outcome = "ok") => mw'.regionMapUpdated = mw.now]_vars

\* a request served from a cache that is exactly 24 hours old, without a fetch
C22_Witness ==
  /\ mw.response.kind # "none"
  /\ ~mw.fetched
  /\ ~mw.build
  /\ mw.now - mw.regionMapUpdated = Day
  /\ mw.regionMap # EmptyMap

\* C23: a refresh that fails leaves the cached map and regionMapUpdated
\* exactly as they were.
C23_FailedRefreshKeepsCache ==
  [][(mw'.req # mw.req /\ mw'.fetched /\ mw'.outcome # "ok") =>
       /\ mw'.regionMap = mw.regionMap
       /\ mw'.regionMapUpdated = mw.regionMapUpdated]_vars

\* the first segment of a path is one of the country codes in use
HasCountryCode(path) ==
  path # <<>> /\ path[1] \in Countries \cup DefaultRegions \cup {"fr"}

\* C24: a request whose path has no country code is answered with a redirect
\* to a path whose first segment is a key of the region map.
C24_RedirectToKnownCountry ==
  (mw.response.kind # "none" /\ ~HasCountryCode(mw.path)) =>
    /\ mw.response.kind = "redirect"
    /\ countryCodeExists(mw.response.path[1], mw.regionMap)

\* C29: after a refresh that succeeded, the region map holds exactly the
\* countries of the regions of the response.
C29_MapMatchesLastResponse ==
  mw.outcome = "ok" => mw.regionMap = mw.backend

\* the steps of an import script that act on the local database, and the
\* steps a run has started
LocalDbSteps == {"drop", "create", "import", "migrate", "fix", "verify"}
StepsOf(m) == {m.started[i] : i \in 1..Len(m.started)}

\* C25: when the answer to the question before the overwrite is anything
\* other than y or Y, the import script drops, creates and imports nothing,
\* runs neither the migrations nor the region fix, and ends with the local
\* database as it was.
C25_DeclineLeavesDb ==
  \A m \in {pull, setup} :
    m.answer \notin {"none", "y", "Y"} =>
      /\ m.pc = "done"
      /\ StepsOf(m) \cap LocalDbSteps = {}
      /\ m.localDb = m.localDb0

C25_Witness ==
  /\ setup.script = "setup-local-db"
  /\ setup.answer = ""
  /\ "dump" \in setup.ok
  /\ setup.localDb0 = "old"
  /\ setup.pc = "done"

\* C26: setup-local-db.js started with --download-only, whatever the other
\* flags, never acts on the local database and starts no development server.
C26_DownloadOnlyTouchesNothing ==
  (setup.script = "setup-local-db" /\ "--download-only" \in setup.flags) =>
    /\ StepsOf(setup) \cap LocalDbSteps = {}
    /\ setup.localDb = setup.localDb0
    /\ ~setup.servers

\* C27: an import script starts dropdb only after pg_dump succeeded in the
\* same run.
C27_DropOnlyAfterDump ==
  \A m \in {pull, setup} : "drop" \in StepsOf(m) => "dump" \in m.ok

\* C30: an answer of the add-to-cart route with success: true names the cart
\* the requested variant was added to by the request.
C30_SuccessMeansAdded ==
  route.response.success => route.added = route.response.cart
====
